---- MODULE Spec2Model ----
(***************************************************************************)
(* Model of mycroft/util/log.py: the LOG class (name resolution with a     *)
(* one-shot override, lazy creation of named loggers, init() from the      *)
(* configuration) together with the part of the standard logging registry  *)
(* that the class drives (logger hierarchy, effective level, handlers).    *)
(*                                                                         *)
(* Text values that are taken apart by the code (logger names) are         *)
(* sequences of tokens, "." and ":" being tokens of their own.             *)
(***************************************************************************)
EXTENDS Integers, Sequences, FiniteSets, TLC

VARIABLES
    custom_name,   \* LOG._custom_name: <<>> is None, <<n>> is the name n
    level,         \* LOG.level, a Python value (int or str)
    loggers,       \* the logging registry: name -> logger object
    last,          \* what the latest operation did (observation of the output)
    hist,          \* history: last init() configuration, last LOG(name), calls since
    pc,            \* per thread: position inside LOG(name).method() / LOG.method()
    local          \* per thread: the local variable `name` of _log and the call's result

vars == <<custom_name, level, loggers, last, hist, pc, local>>

----------------------------------------------------------------------------
(* Bounds of the model *)

\* Largest number of frames above the generated severity method on the stack.
MaxCallers == 2

----------------------------------------------------------------------------
(* Python values *)

PyNone == [t |-> "NoneType", i |-> 0, s |-> ""]
PyInt(n) == [t |-> "int", i |-> n, s |-> ""]
PyStr(x) == [t |-> "str", i |-> 0, s |-> x]

\* Truth value of a Python object: None, 0 and '' are falsy.
Truthy(v) ==
    CASE v.t = "NoneType" -> FALSE
      [] v.t = "int" -> v.i # 0
      [] OTHER -> v.s # ""

\* An optional name: None or a token sequence.
None == <<>>
Some(n) == <<n>>

Root == <<>>           \* the name '' of the root logger
Sentinel == <<"HolmesV">>
Max(S) == CHOOSE m \in S : \A k \in S : k <= m

----------------------------------------------------------------------------
(* logging: levels *)

\* Variant: an unknown name resolves to the number 0.
getLevelNameZero(v) ==
    CASE v.s = "CRITICAL" -> PyInt(50)
      [] v.s = "ERROR" -> PyInt(40)
      [] v.s = "WARNING" -> PyInt(30)
      [] v.s = "INFO" -> PyInt(20)
      [] v.s = "DEBUG" -> PyInt(10)
      [] OTHER -> PyInt(0)

\* logging.getLevelName(level) for a str argument: the number of a known
\* name, and the str 'Level <name>' for any other.
getLevelName(v) ==
    CASE v.t = "NoneType" -> PyStr("Level None")
      [] v.s = "CRITICAL" -> PyInt(50)
      [] v.s = "ERROR" -> PyInt(40)
      [] v.s = "WARNING" -> PyInt(30)
      [] v.s = "INFO" -> PyInt(20)
      [] v.s = "DEBUG" -> PyInt(10)
      [] v.s = "NOTSET" -> PyInt(0)
      [] OTHER -> PyStr("Level " \o v.s)

\* logging._checkLevel: an int is taken as is, a known name gives its number,
\* anything else raises ValueError (modelled by -1).
checkLevel(v) ==
    IF v.t = "int" THEN v.i
    ELSE IF getLevelName(v).t = "int" THEN getLevelName(v).i
    ELSE -1

\* The severity of the logging.Logger method copied into LOG.
Methods == {"debug", "info", "warning", "error", "exception"}
levelno(fn) ==
    CASE fn = "debug" -> 10
      [] fn = "info" -> 20
      [] fn = "warning" -> 30
      [] OTHER -> 40

----------------------------------------------------------------------------
(* logging: the registry and the logger hierarchy *)

\* The shared handler LOG.handler (a StreamHandler on sys.stdout, level NOTSET).
handler == "stdout"

\* A logger as logging creates it: level NOTSET, propagate True, no handlers.
NewLogger == [level |-> 0, propagate |-> TRUE, handlers |-> <<>>]
\* The root logger as logging creates it at import: level WARNING.
RootLogger == [level |-> 30, propagate |-> TRUE, handlers |-> <<>>]

\* str.rfind(".", 0, e): the 0-based index of the last "." before e, or -1.
RFind(name, e) ==
    LET S == {j \in 0..(e - 1) : j < Len(name) /\ name[j + 1] = "."}
    IN IF S = {} THEN -1 ELSE Max(S)

\* Manager._fixupParents: the nearest dotted prefix that is a logger, else root.
RECURSIVE FixupParents(_, _, _)
FixupParents(reg, name, i) ==
    IF i > 0
    THEN IF SubSeq(name, 1, i) \in DOMAIN reg
         THEN SubSeq(name, 1, i)
         ELSE FixupParents(reg, name, RFind(name, i - 1))
    ELSE Root
Parent(reg, name) == FixupParents(reg, name, RFind(name, Len(name)))

\* logging.getLogger(name): the root logger for None or '', else fetch-or-create.
\* Yields the registry after the call; the logger is registered under KeyOf(name).
KeyOf(optname) == IF optname = None THEN Root ELSE optname[1]
getLogger(reg, optname) ==
    IF KeyOf(optname) \in DOMAIN reg
    THEN reg
    ELSE [n \in DOMAIN reg \cup {KeyOf(optname)} |->
            IF n \in DOMAIN reg THEN reg[n] ELSE NewLogger]

\* Logger.addHandler: appends unless the handler is already attached.
addHandler(hs, h) ==
    IF \E k \in 1..Len(hs) : hs[k] = h THEN hs ELSE Append(hs, h)

\* Logger.getEffectiveLevel: the first non-zero level up the parent chain.
RECURSIVE getEffectiveLevel(_, _)
getEffectiveLevel(reg, n) ==
    IF reg[n].level # 0 THEN reg[n].level
    ELSE IF n = Root THEN 0
    ELSE getEffectiveLevel(reg, Parent(reg, n))

\* Logger.callHandlers: the number of lines the shared handler writes for one
\* record, walking up while propagate is true.
RECURSIVE callHandlers(_, _)
callHandlers(reg, n) ==
    Len(SelectSeq(reg[n].handlers, LAMBDA h : h = handler))
    + (IF reg[n].propagate /\ n # Root THEN callHandlers(reg, Parent(reg, n)) ELSE 0)

\* Logger.debug/info/...: isEnabledFor(levelno), then handle the record.
LoggerLog(reg, n, lv) ==
    IF lv >= getEffectiveLevel(reg, n) THEN callHandlers(reg, n) ELSE 0

----------------------------------------------------------------------------
(* The call stack as inspect.stack() returns it *)

\* A stack record: the module inspect.getmodule finds for the frame (None
\* when there is none), the function name and the line number.
Frame(m, f, l) == [module |-> m, function |-> f, lineno |-> l]

LogFrame == Frame(Some(<<"mycroft", ".", "util", ".", "log">>), <<"_log">>, 112)
MethodFrame == Frame(Some(<<"mycroft", ".", "util", ".", "log">>), <<"method">>, 45)
CallerFrames ==
    { Frame(None, <<"<module>">>, 1),
      Frame(Some(<<"p", ".", "m">>), <<"g">>, 12) }

RECURSIVE SeqsOf(_, _)
SeqsOf(S, n) ==
    IF n = 0 THEN {<<>>}
    ELSE SeqsOf(S, n - 1) \cup
         {Append(q, x) : q \in {r \in SeqsOf(S, n - 1) : Len(r) = n - 1}, x \in S}

\* [0] is _log, [1] the generated severity method, then the callers.
Stacks == {<<LogFrame, MethodFrame>> \o c : c \in SeqsOf(CallerFrames, MaxCallers)}

\* str(n) for n >= 0.
Digit(d) == <<"0", "1", "2", "3", "4", "5", "6", "7", "8", "9">>[d + 1]
RECURSIVE str(_)
str(n) == IF n < 10 THEN <<Digit(n)>> ELSE str(n \div 10) \o <<Digit(n % 10)>>

----------------------------------------------------------------------------
(* class LOG *)

CustomNames == {<<"p">>, Root}
ThirdPartyNames == {<<"p", ".", "m">>}
LevelNames == {"DEBUG", "WARNING", "BOGUS"}
Configs ==
    UNION {[K -> {PyNone, PyStr("")} \cup {PyStr(x) : x \in LevelNames}] :
             K \in SUBSET {"log_level"}}

\* dict.get(key, default)
Get(config, key, default) == IF key \in DOMAIN config THEN config[key] ELSE default
\* Python's `a or b`
Or(a, b) == IF Truthy(a) THEN a ELSE b

\* Variant: the record of the outermost frame instead of stack[2].
ResolveNameOutermost(stack, raises) ==
    IF raises \/ Len(stack) < 3
    THEN Sentinel
    ELSE LET record == stack[Len(stack)]
             module_name == IF record.module # None THEN record.module[1] ELSE <<>>
         IN module_name \o <<":">> \o record.function \o <<":">> \o str(record.lineno)

\* Variant: a failed inspection falls back to the empty name (the root logger).
ResolveNameRootFallback(stack, raises) ==
    IF raises \/ Len(stack) < 3
    THEN Root
    ELSE LET record == stack[3]
             module_name == IF record.module # None THEN record.module[1] ELSE <<>>
         IN module_name \o <<":">> \o record.function \o <<":">> \o str(record.lineno)

\* LOG._log, the else branch: the name from the caller's stack record, or the
\* sentinel when anything in the try block raises (stack[2] out of range,
\* or inspect raising).
ResolveName(stack, raises) ==
    IF raises \/ Len(stack) < 3
    THEN Sentinel
    ELSE LET record == stack[3]
             module_name == IF record.module # None THEN record.module[1] ELSE <<>>
         IN module_name \o <<":">> \o record.function \o <<":">> \o str(record.lineno)

\* LOG._log, lines 103-105: the name the call uses, given the override.
NameFor(override, stack, raises) ==
    IF override # None THEN override[1] ELSE ResolveName(stack, raises)
\* Variant: the override is read and not cleared.
OverrideKept(override) == override
\* LOG._log, line 105: the override after the call.
OverrideAfter(override) == None

\* Variant: propagate is left as logging set it.
create_logger_propagating(reg, optname) ==
    LET reg1 == getLogger(reg, optname)
        k == KeyOf(optname)
    IN [reg1 EXCEPT ![k].handlers = addHandler(@, handler)]

\* LOG.create_logger
create_logger(reg, optname) ==
    LET reg1 == getLogger(reg, optname)
        k == KeyOf(optname)
    IN [reg1 EXCEPT ![k].propagate = FALSE,
                    ![k].handlers = addHandler(@, handler)]

\* Variant: the configured value is ignored.
ConfiguredLevelIgnored(config) == getLevelName(PyStr("INFO"))
\* Variant: no `or 'INFO'`, a falsy value is passed on.
ConfiguredLevelNoOr(config) == getLevelName(Get(config, "log_level", PyStr("INFO")))

\* LOG.init, line 87: the value assigned to LOG.level.
ConfiguredLevel(config) ==
    getLevelName(Or(Get(config, "log_level", PyStr("INFO")), PyStr("INFO")))

\* Logger.setLevel(v) on logger k: the registry after it (unchanged if it raises).
setLevel(reg, k, v) ==
    IF checkLevel(v) < 0 THEN reg ELSE [reg EXCEPT ![k].level = checkLevel(v)]

\* The observation of one operation: which one, the severity method, the
\* logger name it used, the lines the shared handler wrote, whether it raised,
\* and for a severity call the override it found and the caller's stack
\* record that inspection obtained (None when it obtained none).
Call(op, fn, name, lines, raised, override, caller) ==
    [op |-> op, fn |-> fn, name |-> name, lines |-> lines, raised |-> raised,
     override |-> override, caller |-> caller]
NoCall == Call("none", "", None, 0, FALSE, None, None)

Threads == {"A", "B"}
\* The locals of a thread inside _log: the name, the branch taken, the lines written.
NoLocal == [name |-> None, lines |-> 0, branch |-> ""]

Init ==
    /\ custom_name = None
    /\ level = getLevelName(PyStr("INFO"))
    /\ loggers = [n \in {Root} |-> RootLogger]
    /\ last = NoCall
    /\ hist = [cfg |-> <<>>, pending |-> None, since |-> 0]
    /\ pc = [t \in Threads |-> "idle"]
    /\ local = [t \in Threads |-> NoLocal]

\* Variant: the level is set on the root logger fetched from the registry,
\* without create_logger attaching the handler.
init_without_handler(config) ==
    /\ level' = ConfiguredLevel(config)
    /\ loggers' = setLevel(getLogger(loggers, Some(Root)), Root, level')
    /\ last' = Call("init", "", None, 0, checkLevel(level') < 0, None, None)
    /\ hist' = [hist EXCEPT !.cfg = <<config>>]
    /\ UNCHANGED <<custom_name, pc, local>>

\* LOG.init()
init(config) ==
    /\ level' = ConfiguredLevel(config)
    /\ loggers' = setLevel(create_logger(loggers, Some(Root)), Root, level')
    /\ last' = Call("init", "", None, 0, checkLevel(level') < 0, None, None)
    /\ hist' = [hist EXCEPT !.cfg = <<config>>]
    /\ UNCHANGED <<custom_name, pc, local>>

\* LOG(name): __init__ stores the name in the class attribute.
LOG(optname) ==
    /\ custom_name' = optname
    /\ last' = NoCall
    /\ hist' = [hist EXCEPT !.pending = optname, !.since = 0]
    /\ UNCHANGED <<level, loggers, pc, local>>

\* LOG.level = v, the programmatic change the module docstring describes.
SetLevel(v) ==
    /\ level' = v
    /\ last' = NoCall
    /\ UNCHANGED <<custom_name, loggers, hist, pc, local>>

\* The record of the original caller that a call without override has on its
\* stack, two positions above _log; None when there is none to obtain.
Caller(override, stack, raises) ==
    IF override = None /\ ~raises /\ Len(stack) >= 3 THEN Some(stack[3]) ELSE None

\* What inspect.stack() gives: a stack, or an exception (the stack is then
\* never looked at).
Inspections ==
    {<<stack, FALSE>> : stack \in Stacks} \cup {<<<<LogFrame, MethodFrame>>, TRUE>>}

\* LOG.debug / info / warning / error / exception: method() then _log().
Severity(fn, stack, raises) ==
    LET name == NameFor(custom_name, stack, raises)
        reg == create_logger(loggers, Some(name))
    IN /\ custom_name' = OverrideAfter(custom_name)
       /\ loggers' = reg
       /\ last' = Call("call", fn, Some(name), LoggerLog(reg, name, levelno(fn)), FALSE,
                       custom_name, Caller(custom_name, stack, raises))
       /\ hist' = [hist EXCEPT !.since = IF @ < 2 THEN @ + 1 ELSE @]
       /\ UNCHANGED <<level, pc, local>>

\* A module outside LOG logging through its own logger from the registry.
ThirdParty(name, fn) ==
    LET reg == getLogger(loggers, Some(name))
    IN /\ loggers' = reg
       /\ last' = Call("thirdparty", fn, Some(name), LoggerLog(reg, name, levelno(fn)),
                       FALSE, None, None)
       /\ UNCHANGED <<custom_name, level, hist, pc, local>>

Next ==
    \/ \E config \in Configs : init(config)
    \/ \E n \in CustomNames : LOG(Some(n))
    \/ LOG(None)
    \/ \E v \in {"DEBUG", "ERROR"} : SetLevel(getLevelName(PyStr(v)))
    \/ \E fn \in Methods, x \in Inspections : Severity(fn, x[1], x[2])
    \/ \E n \in ThirdPartyNames, fn \in Methods : ThirdParty(n, fn)

Spec == Init /\ [][Next]_vars

----------------------------------------------------------------------------
(* Properties of the single-threaded class *)

Cfg(v) == [k \in {"log_level"} |-> v]
NoKey == [k \in {} |-> PyNone]
CallerName == <<"p", ".", "m", ":", "g", ":", "1", "2">>

\* C1: after LOG(name) with a name that is not None, the override is live
\* until the next severity call, that call logs under exactly that name and
\* clears the override, and any later severity call made without a new
\* LOG(name) does not log under that name.
C1_OverrideConsumedOnce ==
    hist.pending # None =>
        /\ hist.since = 0 => custom_name = hist.pending
        /\ hist.since >= 1 => custom_name = None
        /\ (hist.since = 1 /\ last.op = "call") => last.name = hist.pending
        /\ (hist.since = 2 /\ last.op = "call") => last.name # hist.pending

C1_Witness ==
    /\ hist.pending = Some(<<"p">>)
    /\ hist.since = 2
    /\ last.op = "call"
    /\ last.name = Some(Sentinel)
    /\ <<"p">> \in DOMAIN loggers

\* C2: a severity call that finds no override and whose stack holds the
\* caller's record two positions above _log uses the logger name
\* module ":" function ":" line of that record (the module name being empty
\* when the frame has no module).
C2_NameOfCaller ==
    (last.op = "call" /\ last.override = None /\ last.caller # None) =>
        LET c == last.caller[1]
        IN last.name = Some((IF c.module = None THEN <<>> ELSE c.module[1])
                            \o <<":">> \o c.function \o <<":">> \o str(c.lineno))

C2_Witness ==
    /\ last.op = "call"
    /\ last.override = None
    /\ last.caller = Some(Frame(Some(<<"p", ".", "m">>), <<"g">>, 12))
    /\ last.name = Some(CallerName)

\* C3: after init() with log_level "WARNING", a debug() or info() call writes
\* no line and a warning() or error() call writes a line, whatever name the
\* call resolves to.
C3_WarningGate ==
    (hist.cfg = <<Cfg(PyStr("WARNING"))>> /\ last.op = "call") =>
        /\ last.fn \in {"debug", "info"} => last.lines = 0
        /\ last.fn \in {"warning", "error"} => last.lines = 1

C3_Witness ==
    /\ hist.cfg = <<Cfg(PyStr("WARNING"))>>
    /\ last.op = "call"
    /\ last.fn = "info"
    /\ last.override = Some(<<"p">>)
    /\ last.lines = 0
    /\ level = PyInt(10)

\* C4: a severity call writes a line if and only if its severity is at least
\* the current value of LOG.level, also before init() and after an
\* assignment to LOG.level.
C4_GlobalLevelGate ==
    (last.op = "call" /\ level.t = "int") =>
        (last.lines >= 1 <=> levelno(last.fn) >= level.i)

\* C5: init() with no log_level key, or with a falsy log_level, leaves INFO
\* in LOG.level and on the root logger.
C5_DefaultInfo ==
    (last.op = "init" /\ \E c \in {NoKey, Cfg(PyNone), Cfg(PyStr(""))} : hist.cfg = <<c>>) =>
        /\ level = PyInt(20)
        /\ loggers[Root].level = 20
        /\ ~last.raised

C5_Witness ==
    /\ last.op = "init"
    /\ hist.cfg = <<Cfg(PyNone)>>
    /\ level = PyInt(20)
    /\ loggers[Root].level = 20

\* C6: a severity call that finds no override and obtains no caller record
\* (inspection raised, or fewer than 3 frames) uses the logger 'HolmesV',
\* does not raise, and logs through that logger.
C6_SentinelOnFailure ==
    (last.op = "call" /\ last.override = None /\ last.caller = None) =>
        /\ last.name = Some(Sentinel)
        /\ ~last.raised
        /\ Sentinel \in DOMAIN loggers
        /\ loggers[Sentinel].handlers = <<handler>>
        /\ levelno(last.fn) >= loggers[Root].level => last.lines = 1

C6_Witness ==
    /\ last.op = "call"
    /\ last.override = None
    /\ last.caller = None
    /\ last.name = Some(Sentinel)
    /\ last.lines = 1

\* C7 as stated: init() with an unknown level name completes, with the
\* numeric level 0 in LOG.level and on the root logger.
C7_UnknownLevelIsZero ==
    (last.op = "init" /\ hist.cfg = <<Cfg(PyStr("BOGUS"))>>) =>
        /\ ~last.raised
        /\ level = PyInt(0)
        /\ loggers[Root].level = 0

\* C7 amended: init() with a log_level text that is not a recognised severity
\* name stores the text 'Level <name>' in LOG.level, attaches the handler to
\* the root logger with propagate off, and raises from setLevel, which leaves
\* the root logger's level as it was.
C7_UnknownLevelRaises ==
    [][(last'.op = "init" /\ hist'.cfg = <<Cfg(PyStr("BOGUS"))>>) =>
          /\ last'.raised
          /\ level' = PyStr("Level BOGUS")
          /\ loggers'[Root].handlers = <<handler>>
          /\ ~loggers'[Root].propagate
          /\ loggers'[Root].level = loggers[Root].level]_vars

C7_Witness ==
    /\ last.op = "init"
    /\ hist.cfg = <<Cfg(PyStr("BOGUS"))>>
    /\ last.raised
    /\ level = PyStr("Level BOGUS")
    /\ loggers[Root].level = 10

\* C8: no logger holds the shared handler twice, every logger configured by
\* create_logger has propagate off, and a severity call that passes the
\* logger's level gate writes exactly one line.
C8_OneLinePerCall ==
    /\ \A n \in DOMAIN loggers :
          /\ Cardinality({k \in 1..Len(loggers[n].handlers) :
                            loggers[n].handlers[k] = handler}) <= 1
          /\ loggers[n].handlers # <<>> => ~loggers[n].propagate
    /\ (last.op = "call" /\ levelno(last.fn) >= getEffectiveLevel(loggers, last.name[1]))
          => last.lines = 1
    /\ (last.op = "call" /\ levelno(last.fn) < getEffectiveLevel(loggers, last.name[1]))
          => last.lines = 0

C8_Witness ==
    /\ last.op = "call"
    /\ last.name = Some(CallerName)
    /\ last.lines = 1
    /\ hist.since = 2
    /\ <<"p">> \in DOMAIN loggers
    /\ loggers[Root].handlers = <<handler>>

\* The level a successful init() is expected to apply for a configuration.
ExpectedLevel(c) ==
    IF c = Cfg(PyStr("WARNING")) THEN 30
    ELSE IF c = Cfg(PyStr("DEBUG")) THEN 10
    ELSE 20

\* C10: after init() has run with level L, a record that another module logs
\* through its own logger is written through the shared handler exactly once
\* if its severity is at least L, and not at all otherwise.
C10_ThirdPartyGated ==
    (last.op = "thirdparty" /\ hist.cfg # <<>> /\ hist.cfg # <<Cfg(PyStr("BOGUS"))>>) =>
        last.lines = IF levelno(last.fn) >= ExpectedLevel(hist.cfg[1]) THEN 1 ELSE 0

C10_Witness ==
    /\ last.op = "thirdparty"
    /\ hist.cfg = <<Cfg(PyStr("DEBUG"))>>
    /\ last.fn = "debug"
    /\ last.lines = 1
    /\ <<"p">> \in DOMAIN loggers

----------------------------------------------------------------------------
(* Two threads: A runs LOG(name).method(...), B runs LOG.method(...).        *)
(* Each line of _log that touches the shared class attribute is a step.     *)

\* Thread A, LOG(name): __init__ stores the name in the class attribute.
A_init(n) ==
    /\ pc["A"] = "start"
    /\ custom_name' = Some(n)
    /\ hist' = [hist EXCEPT !.pending = Some(n), !.since = 0]
    /\ pc' = [pc EXCEPT !["A"] = "L103"]
    /\ UNCHANGED <<level, loggers, last, local>>

\* Thread B enters its severity method.
B_call ==
    /\ pc["B"] = "start"
    /\ pc' = [pc EXCEPT !["B"] = "L103"]
    /\ UNCHANGED <<custom_name, level, loggers, last, hist, local>>

\* _log line 103: if cls._custom_name is not None
L103(t) ==
    /\ pc[t] = "L103"
    /\ pc' = [pc EXCEPT ![t] = IF custom_name # None THEN "L104" ELSE "L112"]
    /\ local' = [local EXCEPT ![t].branch = IF custom_name # None THEN "override" ELSE "stack"]
    /\ UNCHANGED <<custom_name, level, loggers, last, hist>>

\* Variant: the attribute is cleared before it is read.
L104_cleared(t) ==
    /\ pc[t] = "L104"
    /\ custom_name' = None
    /\ local' = [local EXCEPT ![t].name = custom_name']
    /\ pc' = [pc EXCEPT ![t] = "L105"]
    /\ UNCHANGED <<level, loggers, last, hist>>

\* _log line 104: name = cls._custom_name (which another thread may have cleared)
L104(t) ==
    /\ pc[t] = "L104"
    /\ local' = [local EXCEPT ![t].name = custom_name]
    /\ pc' = [pc EXCEPT ![t] = "L105"]
    /\ UNCHANGED <<custom_name, level, loggers, last, hist>>

\* _log line 105: cls._custom_name = None
L105(t) ==
    /\ pc[t] = "L105"
    /\ custom_name' = OverrideAfter(custom_name)
    /\ pc' = [pc EXCEPT ![t] = "L128"]
    /\ UNCHANGED <<level, loggers, last, hist, local>>

\* _log lines 111-126: the name from the stack, or the sentinel
L112(t, stack, raises) ==
    /\ pc[t] = "L112"
    /\ local' = [local EXCEPT ![t].name = Some(ResolveName(stack, raises))]
    /\ pc' = [pc EXCEPT ![t] = "L128"]
    /\ UNCHANGED <<custom_name, level, loggers, last, hist>>

\* _log line 128: func(cls.create_logger(name), ...)
L128(t, fn) ==
    /\ pc[t] = "L128"
    /\ LET name == local[t].name
           reg == create_logger(loggers, name)
       IN /\ loggers' = reg
          /\ local' = [local EXCEPT ![t].lines = LoggerLog(reg, KeyOf(name), levelno(fn))]
    /\ pc' = [pc EXCEPT ![t] = "done"]
    /\ UNCHANGED <<custom_name, level, last, hist>>

InitMT ==
    /\ custom_name = None
    /\ level = getLevelName(PyStr("INFO"))
    /\ loggers = [n \in {Root} |-> RootLogger]
    /\ last = NoCall
    /\ hist = [cfg |-> <<>>, pending |-> None, since |-> 0]
    /\ pc = [t \in Threads |-> "start"]
    /\ local = [t \in Threads |-> NoLocal]

NextMT ==
    \/ \E n \in CustomNames : A_init(n)
    \/ B_call
    \/ \E t \in Threads : L103(t)
    \/ \E t \in Threads : L104(t)
    \/ \E t \in Threads : L105(t)
    \/ \E t \in Threads, x \in Inspections : L112(t, x[1], x[2])
    \/ \E t \in Threads, fn \in Methods : L128(t, fn)

SpecMT == InitMT /\ [][NextMT]_vars

\* C9: whenever both calls have finished and A's own call found no override
\* at line 103, the override went to B: B took the override branch and logged
\* under A's name, and A logged under the name derived from its stack (or the
\* sentinel). The witness is the interleaving in which that happens.
C9_OverrideLeaksToB ==
    (pc["A"] = "done" /\ pc["B"] = "done" /\ local["A"].branch = "stack") =>
        /\ local["B"].branch = "override"
        /\ local["B"].name = hist.pending
        /\ local["A"].name # hist.pending
        /\ local["A"].name \in
              {Some(ResolveName(x[1], x[2])) : x \in Inspections}

C9_Witness ==
    /\ pc["A"] = "done"
    /\ pc["B"] = "done"
    /\ hist.pending = Some(<<"p">>)
    /\ local["B"].name = Some(<<"p">>)
    /\ local["B"].branch = "override"
    /\ local["A"].branch = "stack"
    /\ local["A"].name = Some(CallerName)
    /\ local["B"].lines = 1

====
